---- MODULE Spec2Model ----
(***************************************************************************)
(* Model of crev's Repo (src/repo/mod.rs): the .crev directory of a        *)
(* project, its staging area, its append-only proof store and the commit   *)
(* pipeline  staging -> revision -> enforce_current -> build -> edit ->    *)
(* sign -> append -> wipe.                                                 *)
(*                                                                         *)
(* One CLI operation runs in one process on a fresh Repo (staging: None).  *)
(* init, add, remove and status are one action each.  commit is one action *)
(* per fallible statement, because it blocks on the passphrase prompt and  *)
(* on the interactive editor while the working tree keeps changing.        *)
(***************************************************************************)
EXTENDS Integers, Sequences, FiniteSets, TLC

VARIABLES
    config,        \* .crev/config.yaml: {} when absent, else {ProjectConfig}
    files,         \* working tree: path -> content digest
    git,           \* what git2 reports for the project root
    stagingFile,   \* .crev/staging: persisted entries, path -> recorded digest
    staging,       \* Repo.staging: Option<Staging>, the lazily loaded copy
    store,         \* .crev/proofs/<rel path>: sequence of written chunks
    pc,            \* position of the running operation
    project_config,\* commit(): `project_config` local
    revision,      \* commit(): `revision` local
    review,        \* commit(): `review` local
    did,           \* statements of the running call that completed
    ret,           \* the call's outcome, observed at pc = "done"
    config0,       \* config.yaml when the running call started
    staging0,      \* .crev/staging when the running call started
    store0         \* the proof store when the running call started

vars == <<config, files, git, stagingFile, staging, store, pc, project_config,
          revision, review, did, ret, config0, staging0, store0>>

----------------------------------------------------------------------------
(* Bounds and input sets *)

MaxProofs == 2          \* chunks the proof store may hold in total
MaxArgs == 2            \* paths given to one add() / remove() call

Paths == {"a", "b"}
PathOrder == <<"a", "b">>       \* Paths in lexicographic order
Digests == {0, 1}
Revs == {"r1"}
ProjectIds == {"X", "Y"}
TrustRoots == {"t1"}

\* What git2 finds at the project root: whether .git exists, the repository
\* state, whether a tracked file is modified, whether untracked files exist,
\* and the object id HEAD resolves to.
NoGit == [dotgit |-> FALSE, state |-> "Clean", modified |-> FALSE, untracked |-> FALSE, head |-> ""]
GitStates ==
    {NoGit} \cup
    {[dotgit |-> TRUE, state |-> "Merge", modified |-> FALSE, untracked |-> FALSE, head |-> r] : r \in Revs} \cup
    {[dotgit |-> TRUE, state |-> "Clean", modified |-> TRUE, untracked |-> FALSE, head |-> r] : r \in Revs} \cup
    {[dotgit |-> TRUE, state |-> "Clean", modified |-> FALSE, untracked |-> TRUE, head |-> r] : r \in Revs} \cup
    {[dotgit |-> TRUE, state |-> "Clean", modified |-> FALSE, untracked |-> FALSE, head |-> r] : r \in Revs}

PathArgs == UNION {[1..n -> Paths] : n \in 1..MaxArgs}

Range(s) == {s[i] : i \in DOMAIN s}

----------------------------------------------------------------------------
(* Values *)

NoConfig == [version |-> 0, project_id |-> "", project_trust_root |-> ""]
NoRevision == [type_ |-> "", revision |-> ""]
NoReview == [revision |-> "", revision_type |-> "", project_id |-> "", files |-> <<>>]
NoEntries == <<>>
Unopened == [open |-> FALSE, entries |-> NoEntries]
NoRet == [op |-> "", result |-> "", step |-> "", args |-> <<>>, out |-> <<>>]

AppendOutcomes == {"ok", "nodir", "noopen", "nowrite", "torn"}

\* What a write that failed part-way leaves at the end of a store file.
TornChunk == [body |-> NoReview, complete |-> FALSE]

(* proof::Content::rel_project_path: the project path a content declares.  *)
rel_project_path(content) == content.project_id

StorePaths == {<<"proofs", id>> : id \in ProjectIds}

TotalChunks(st) ==
    LET RECURSIVE Sum(_)
        Sum(S) == IF S = {} THEN 0
                  ELSE LET p == CHOOSE q \in S : TRUE
                       IN Len(st[p]) + Sum(S \ {p})
    IN Sum(StorePaths)

CompleteProofs(chunks) == SelectSeq(chunks, LAMBDA c : c.complete)

IsPrefix(s, t) == Len(s) <= Len(t) /\ SubSeq(t, 1, Len(s)) = s

----------------------------------------------------------------------------
(* repo::staging::Staging *)

StagingOpen(persisted) == [open |-> TRUE, entries |-> persisted]

insert(entries, path, fs) ==
    [q \in (DOMAIN entries) \cup {path} |-> IF q = path THEN fs[path] ELSE entries[q]]

remove(entries, path) == [q \in (DOMAIN entries) \ {path} |-> entries[q]]

is_empty(entries) == DOMAIN entries = {}

\* enforce_current succeeds iff every entry still has the digest it was staged with.
IsCurrent(entries, fs) == \A p \in DOMAIN entries : entries[p] = fs[p]

to_review_files(entries) == SelectSeq(PathOrder, LAMBDA p : p \in DOMAIN entries)

----------------------------------------------------------------------------
(* Repo: pure parts *)

\* staging(): open the staging file on first use, else the cached handle.
StagingAccessor(cached, persisted) ==
    IF ~cached.open THEN StagingOpen(persisted) ELSE cached

\* Bug: a path that is already staged is dropped instead of refreshed.
RECURSIVE AddAllToggle(_, _, _)
AddAllToggle(entries, paths, fs) ==
    IF paths = <<>> THEN entries
    ELSE AddAllToggle(IF Head(paths) \in DOMAIN entries
                      THEN remove(entries, Head(paths))
                      ELSE insert(entries, Head(paths), fs), Tail(paths), fs)

\* Bug: the loop stops after the first path.
AddAllFirstOnly(entries, paths, fs) ==
    IF paths = <<>> THEN entries ELSE insert(entries, Head(paths), fs)

\* add(): `for path in file_paths { staging.insert(&path) }`
RECURSIVE AddAll(_, _, _)
AddAll(entries, paths, fs) ==
    IF paths = <<>> THEN entries
    ELSE AddAll(insert(entries, Head(paths), fs), Tail(paths), fs)

\* remove(): `for path in file_paths { staging.remove(&path) }`
RECURSIVE RemoveAll(_, _)
RemoveAll(entries, paths) ==
    IF paths = <<>> THEN entries
    ELSE RemoveAll(remove(entries, Head(paths)), Tail(paths))

get_proof_rel_store_path(content) == <<"proofs", rel_project_path(content)>>

\* git_repo.statuses(opts): the status of every entry git reports.
Statuses(g, include_untracked) ==
    (IF g.modified THEN <<"WT_MODIFIED">> ELSE <<>>) \o
    (IF include_untracked /\ g.untracked THEN <<"WT_NEW">> ELSE <<>>)

\* try_read_git_revision: "none" = Ok(None), "err" = Err, "some" = Ok(Some(info)).
\* ioerr: git2 could not open the repository or resolve HEAD.
try_read_git_revision(g, ioerr) ==
    IF ~g.dotgit THEN [kind |-> "none", info |-> NoRevision]
    ELSE IF ioerr THEN [kind |-> "err", info |-> NoRevision]
    ELSE IF g.state # "Clean" THEN [kind |-> "err", info |-> NoRevision]
    ELSE IF \E i \in DOMAIN Statuses(g, FALSE) : Statuses(g, FALSE)[i] # "CURRENT"
         THEN [kind |-> "err", info |-> NoRevision]
    ELSE [kind |-> "some", info |-> [type_ |-> "git", revision |-> g.head]]

\* Bug: Ok(None) from try_read_git_revision is passed on as "no revision".
read_revisionFallback(g, ioerr) ==
    LET r == try_read_git_revision(g, ioerr)
    IN IF r.kind = "err" THEN [ok |-> FALSE, info |-> NoRevision]
       ELSE [ok |-> TRUE, info |-> r.info]

read_revision(g, ioerr) ==
    LET r == try_read_git_revision(g, ioerr)
    IN IF r.kind = "some" THEN [ok |-> TRUE, info |-> r.info]
       ELSE [ok |-> FALSE, info |-> NoRevision]

\* Bug: the file records are passed to the builder in reverse order.
BuildReviewReversed(rev, cfg, entries) ==
    LET f == to_review_files(entries)
    IN [revision |-> rev.revision, revision_type |-> rev.type_,
        project_id |-> cfg.project_id,
        files |-> [i \in 1..Len(f) |-> f[Len(f) + 1 - i]]]

\* ReviewBuilder chain of commit().
BuildReview(rev, cfg, entries) ==
    [revision |-> rev.revision, revision_type |-> rev.type_,
     project_id |-> cfg.project_id, files |-> to_review_files(entries)]

\* proof.to_string(): the serialized signed proof with its delimiters.
Serialize(content) == [body |-> content, complete |-> TRUE]

\* Bug: the write went through but the call reports the error of a later step.
append_proof_atErrAfterWrite(st, content, rel, how) ==
    IF how \in {"ok", "nowrite"} THEN [st EXCEPT ![rel] = Append(@, Serialize(content))]
    ELSE IF how = "torn" THEN [st EXCEPT ![rel] = Append(@, TornChunk)]
    ELSE st

\* Bug: the store file is opened with truncate instead of append.
append_proof_atTruncate(st, content, rel, how) ==
    IF how = "ok" THEN [st EXCEPT ![rel] = <<Serialize(content)>>]
    ELSE IF how = "torn" THEN [st EXCEPT ![rel] = <<TornChunk>>]
    ELSE st

\* append_proof_at: create_dir_all, open(append, create), write_all, flush.
\* Bug: a proof equal to the last one in the file is not written again.
append_proof_atSkipDuplicate(st, content, rel, how) ==
    IF how = "ok" THEN
        IF st[rel] # <<>> /\ st[rel][Len(st[rel])] = Serialize(content)
        THEN st
        ELSE [st EXCEPT ![rel] = Append(@, Serialize(content))]
    ELSE IF how = "torn" THEN [st EXCEPT ![rel] = Append(@, TornChunk)]
    ELSE st

\* how: "ok", "nodir", "noopen", "nowrite" (write_all failed, nothing written),
\* "torn" (write_all failed after writing part of the bytes).  flush() on a
\* std::fs::File does nothing and returns Ok, so it adds no outcome.
append_proof_at(st, content, rel, how) ==
    IF how = "ok" THEN [st EXCEPT ![rel] = Append(@, Serialize(content))]
    ELSE IF how = "torn" THEN [st EXCEPT ![rel] = Append(@, TornChunk)]
    ELSE st

\* commit() with a different statement order: Order is the sequence of
\* statements, each followed by the next one and the last by `Ok(())`.
Successor(order, step) ==
    LET i == CHOOSE k \in DOMAIN order : order[k] = step
    IN IF i = Len(order) THEN "return" ELSE order[i + 1]

\* Bug: staging is wiped right after signing, before the proof is appended.
StepAfterWipeBeforeAppend(step) ==
    Successor(<<"staging", "read_passphrase", "local_open", "read_unlocked_id",
                "load_project_config", "read_revision", "enforce_current", "build",
                "edit", "sign", "wipe", "append", "local_reopen", "local_append">>, step)

\* Bug: staging is wiped before the user's local store is reopened.
StepAfterWipeBeforeLocal(step) ==
    Successor(<<"staging", "read_passphrase", "local_open", "read_unlocked_id",
                "load_project_config", "read_revision", "enforce_current", "build",
                "edit", "sign", "append", "wipe", "local_reopen", "local_append">>, step)

\* Bug: enforce_current is called only after the proof has been signed.
StepAfterSignBeforeEnforce(step) ==
    Successor(<<"staging", "read_passphrase", "local_open", "read_unlocked_id",
                "load_project_config", "read_revision", "build", "edit", "sign",
                "enforce_current", "append", "local_reopen", "local_append", "wipe">>, step)

\* Bug: the proof is printed and appended before it is signed.
StepAfterAppendBeforeSign(step) ==
    Successor(<<"staging", "read_passphrase", "local_open", "read_unlocked_id",
                "load_project_config", "read_revision", "enforce_current", "build",
                "edit", "append", "sign", "local_reopen", "local_append", "wipe">>, step)

\* commit(): the statements in program order; "return" is `Ok(())`.
StepAfter(step) ==
    CASE step = "staging" -> "read_passphrase"
      [] step = "read_passphrase" -> "local_open"
      [] step = "local_open" -> "read_unlocked_id"
      [] step = "read_unlocked_id" -> "load_project_config"
      [] step = "load_project_config" -> "read_revision"
      [] step = "read_revision" -> "enforce_current"
      [] step = "enforce_current" -> "build"
      [] step = "build" -> "edit"
      [] step = "edit" -> "sign"
      [] step = "sign" -> "append"
      [] step = "append" -> "local_reopen"
      [] step = "local_reopen" -> "local_append"
      [] step = "local_append" -> "wipe"
      [] step = "wipe" -> "return"

\* Bug: the result of wipe() is dropped as well.
PropagatesNotWipe(step) == step \notin {"local_append", "wipe"}

\* commit(): TRUE for a statement whose error is propagated with `?`.
Propagates(step) == step # "local_append"

\* Bug: the emptiness check is missing.
NothingToCommitNever(entries) == FALSE

\* commit(): the guard of `bail!("No reviews to commit. Use `add` first.")`.
NothingToCommit(entries) == is_empty(entries)

----------------------------------------------------------------------------
(* State machine *)

Init ==
    /\ config = {}
    /\ files = [p \in Paths |-> 0]
    /\ git = NoGit
    /\ stagingFile = NoEntries
    /\ staging = Unopened
    /\ store = [rel \in StorePaths |-> <<>>]
    /\ pc = "idle"
    /\ project_config = NoConfig
    /\ revision = NoRevision
    /\ review = NoReview
    /\ did = {}
    /\ ret = NoRet
    /\ config0 = {}
    /\ staging0 = NoEntries
    /\ store0 = [rel \in StorePaths |-> <<>>]

Disk == <<config, stagingFile, store>>
Tree == <<files, git>>
Frame == <<project_config, revision, review>>
Before == <<config0, staging0, store0>>

\* The distinct paths of an argument vector, in lexicographic order.
Distinct(paths) == SelectSeq(PathOrder, LAMBDA q : \E i \in DOMAIN paths : paths[i] = q)

\* The call returns.  ret: the operation, Ok or Err, the statement that failed,
\* the distinct paths it was given and what it listed on stdout.
Returned(op, result, step, paths, out) ==
    /\ pc' = "done"
    /\ ret' = [op |-> op, result |-> result, step |-> step,
               args |-> Distinct(paths), out |-> out]

(* The working tree changes at any moment, also while commit() runs. *)
ModifyFile(p, d) ==
    /\ pc # "done"
    /\ d # files[p]
    /\ files' = [files EXCEPT ![p] = d]
    /\ UNCHANGED <<config, git, stagingFile, staging, store, pc, Frame, did, ret, Before>>

GitChange(g) ==
    /\ pc # "done"
    /\ g # git
    /\ git' = g
    /\ UNCHANGED <<config, files, stagingFile, staging, store, pc, Frame, did, ret, Before>>

\* Bug: the `if config_path.exists() { bail!(..) }` test is missing.
RepoInitOverwrite(id_str, random_id, how) ==
    /\ pc = "idle"
    /\ IF how \in {"nonew", "nodir", "nostore"} THEN
            /\ Returned("init", "err", how, <<>>, <<>>)
            /\ UNCHANGED config
       ELSE
            /\ config' = {[version |-> 0, project_id |-> random_id,
                           project_trust_root |-> id_str]}
            /\ Returned("init", "ok", "", <<>>, <<>>)
    /\ UNCHANGED <<Tree, stagingFile, staging, store, Frame, did, Before>>

(* Repo::init(path, id_str).  how: "nonew" (canonicalize failed), "nodir"   *)
(* (create_dir_all failed), "nostore" (store_to_file_with failed), "ok".    *)
RepoInit(id_str, random_id, how) ==
    /\ pc = "idle"
    /\ IF how = "nonew" THEN
            /\ Returned("init", "err", "new", <<>>, <<>>)
            /\ UNCHANGED config
       ELSE IF how = "nodir" THEN
            /\ Returned("init", "err", "create_dir_all", <<>>, <<>>)
            /\ UNCHANGED config
       ELSE IF config # {} THEN
            /\ Returned("init", "err", "exists", <<>>, <<>>)
            /\ UNCHANGED config
       ELSE IF how = "nostore" THEN
            /\ Returned("init", "err", "store_to_file", <<>>, <<>>)
            /\ UNCHANGED config
       ELSE
            /\ config' = {[version |-> 0, project_id |-> random_id,
                           project_trust_root |-> id_str]}
            /\ Returned("init", "ok", "", <<>>, <<>>)
    /\ UNCHANGED <<Tree, stagingFile, staging, store, Frame, did, Before>>

(* Repo::add(file_paths).  how: "noopen" (Staging::open failed), "nosave"   *)
(* (save failed), "ok".                                                     *)
Add(file_paths, how) ==
    /\ pc = "idle"
    /\ IF how = "noopen" THEN
            /\ Returned("add", "err", "staging", file_paths, <<>>)
            /\ UNCHANGED <<staging, stagingFile>>
       ELSE
            /\ staging' = [StagingAccessor(staging, stagingFile) EXCEPT
                              !.entries = AddAll(@, file_paths, files)]
            /\ IF how = "nosave" THEN
                    /\ Returned("add", "err", "save", file_paths, <<>>)
                    /\ UNCHANGED stagingFile
               ELSE
                    /\ stagingFile' = staging'.entries
                    /\ Returned("add", "ok", "", file_paths, <<>>)
    /\ UNCHANGED <<config, Tree, store, Frame, did, Before>>

(* Repo::remove(file_paths) *)
Remove(file_paths, how) ==
    /\ pc = "idle"
    /\ IF how = "noopen" THEN
            /\ Returned("remove", "err", "staging", file_paths, <<>>)
            /\ UNCHANGED <<staging, stagingFile>>
       ELSE
            /\ staging' = [StagingAccessor(staging, stagingFile) EXCEPT
                              !.entries = RemoveAll(@, file_paths)]
            /\ IF how = "nosave" THEN
                    /\ Returned("remove", "err", "save", file_paths, <<>>)
                    /\ UNCHANGED stagingFile
               ELSE
                    /\ stagingFile' = staging'.entries
                    /\ Returned("remove", "ok", "", file_paths, <<>>)
    /\ UNCHANGED <<config, Tree, store, Frame, did, Before>>

\* Bug: status() resolves the revision first and fails where commit() would.
StatusReadsRevision(how) ==
    /\ pc = "idle"
    /\ IF how = "noopen" \/ ~read_revision(git, FALSE).ok THEN
            /\ Returned("status", "err",
                        IF how = "noopen" THEN "staging" ELSE "read_revision", <<>>, <<>>)
            /\ UNCHANGED staging
       ELSE
            /\ staging' = StagingAccessor(staging, stagingFile)
            /\ Returned("status", "ok", "", <<>>, to_review_files(staging'.entries))
    /\ UNCHANGED <<Disk, Tree, Frame, did, Before>>

(* Repo::status(): prints the staged paths; ret.out is what was printed.   *)
Status(how) ==
    /\ pc = "idle"
    /\ IF how = "noopen" THEN
            /\ Returned("status", "err", "staging", <<>>, <<>>)
            /\ UNCHANGED staging
       ELSE
            /\ staging' = StagingAccessor(staging, stagingFile)
            /\ Returned("status", "ok", "", <<>>, to_review_files(staging'.entries))
    /\ UNCHANGED <<Disk, Tree, Frame, did, Before>>

----------------------------------------------------------------------------
(* Repo::commit(), one action per fallible statement *)

CommitFail(step) == Returned("commit", "err", step, <<>>, <<>>)

CommitNext(step) ==
    IF StepAfter(step) = "return"
    THEN Returned("commit", "ok", "", <<>>, <<>>)
    ELSE pc' = StepAfter(step) /\ ret' = ret

\* `if self.staging()?.is_empty() { bail!(..) }`
CommitStaging(ok) ==
    /\ pc = "idle"
    /\ TotalChunks(store) < MaxProofs
    /\ IF ~ok THEN
            /\ CommitFail("staging")
            /\ UNCHANGED <<staging, did>>
       ELSE
            /\ staging' = StagingAccessor(staging, stagingFile)
            /\ IF NothingToCommit(staging'.entries)
               THEN CommitFail("nothing_to_commit") /\ UNCHANGED did
               ELSE CommitNext("staging") /\ did' = did \cup {"staging"}
    /\ UNCHANGED <<Disk, Tree, Frame, Before>>

\* A collaborator call that touches nothing of the repository.
Collaborator(step, ok) ==
    /\ pc = step
    /\ IF ok THEN CommitNext(step) /\ did' = did \cup {step}
             ELSE CommitFail(step) /\ UNCHANGED did
    /\ UNCHANGED <<Disk, Tree, staging, Frame, Before>>

ReadPassphrase(ok) == Collaborator("read_passphrase", ok)
LocalOpen(ok) == Collaborator("local_open", ok)
ReadUnlockedId(ok) == Collaborator("read_unlocked_id", ok)

LoadProjectConfig(ok) ==
    /\ pc = "load_project_config"
    /\ IF ok /\ config # {} THEN
            /\ project_config' = CHOOSE c \in config : TRUE
            /\ CommitNext("load_project_config")
            /\ did' = did \cup {"load_project_config"}
       ELSE
            /\ CommitFail("load_project_config")
            /\ UNCHANGED <<project_config, did>>
    /\ UNCHANGED <<Disk, Tree, staging, revision, review, Before>>

ReadRevision(ioerr) ==
    /\ pc = "read_revision"
    /\ LET r == read_revision(git, ioerr)
       IN IF r.ok THEN
               /\ revision' = r.info
               /\ CommitNext("read_revision")
               /\ did' = did \cup {"read_revision"}
          ELSE
               /\ CommitFail("read_revision")
               /\ UNCHANGED <<revision, did>>
    /\ UNCHANGED <<Disk, Tree, staging, project_config, review, Before>>

\* ok = FALSE: an entry's file could not be read.
EnforceCurrent(ok) ==
    /\ pc = "enforce_current"
    /\ staging' = StagingAccessor(staging, stagingFile)
    /\ LET passed == ok /\ IsCurrent(staging'.entries, files)
       IN IF passed \/ ~Propagates("enforce_current")
          THEN /\ CommitNext("enforce_current")
               /\ did' = IF passed THEN did \cup {"enforce_current"} ELSE did
          ELSE CommitFail("enforce_current") /\ UNCHANGED did
    /\ UNCHANGED <<Disk, Tree, Frame, Before>>

Build(ok) ==
    /\ pc = "build"
    /\ staging' = StagingAccessor(staging, stagingFile)
    /\ IF ok THEN
            /\ review' = BuildReview(revision, project_config, staging'.entries)
            /\ CommitNext("build")
            /\ did' = did \cup {"build"}
       ELSE
            /\ CommitFail("build")
            /\ UNCHANGED <<review, did>>
    /\ UNCHANGED <<Disk, Tree, project_config, revision, Before>>

\* The editor returns the content verbatim, or with its first file record
\* deleted ("drop"; did then holds "edited"), or the user aborts.
EditOutcomes == {"abort", "verbatim", "drop"}
Edit(how) ==
    /\ pc = "edit"
    /\ how = "drop" => Len(review.files) > 1
    /\ IF how = "abort" THEN
            /\ CommitFail("edit")
            /\ UNCHANGED <<review, did>>
       ELSE
            /\ review' = IF how = "verbatim" THEN review
                         ELSE [review EXCEPT !.files = Tail(@)]
            /\ CommitNext("edit")
            /\ did' = did \cup (IF how = "drop" THEN {"edit", "edited"} ELSE {"edit"})
    /\ UNCHANGED <<Disk, Tree, staging, project_config, revision, Before>>

Sign(ok) == Collaborator("sign", ok)

\* `println!("{}", proof)` then `self.append_proof_at(proof, &rel_store_path)?`
AppendProof(how) ==
    /\ pc = "append"
    /\ store' = append_proof_at(store, review, get_proof_rel_store_path(review), how)
    /\ IF how = "ok" \/ ~Propagates("append")
       THEN /\ CommitNext("append")
            /\ did' = did \cup (IF how = "ok" THEN {"print", "append"} ELSE {"print"})
       ELSE CommitFail("append") /\ did' = did \cup {"print"}
    /\ UNCHANGED <<config, stagingFile, Tree, staging, Frame, Before>>

LocalReopen(ok) == Collaborator("local_reopen", ok)

\* `local.append_proof(&proof, &review);`
LocalAppend(ok) ==
    /\ pc = "local_append"
    /\ IF ~ok /\ Propagates("local_append")
       THEN CommitFail("local_append") /\ UNCHANGED did
       ELSE /\ CommitNext("local_append")
            /\ did' = IF ok THEN did \cup {"local_append"} ELSE did
    /\ UNCHANGED <<Disk, Tree, staging, Frame, Before>>

\* `self.staging()?.wipe()?`
Wipe(ok) ==
    /\ pc = "wipe"
    /\ IF ok THEN
            /\ staging' = [StagingAccessor(staging, stagingFile) EXCEPT
                              !.entries = NoEntries]
            /\ stagingFile' = NoEntries
            /\ CommitNext("wipe")
            /\ did' = did \cup {"wipe"}
       ELSE
            /\ IF Propagates("wipe") THEN CommitFail("wipe") ELSE CommitNext("wipe")
            /\ UNCHANGED <<staging, stagingFile, did>>
    /\ UNCHANGED <<config, store, Tree, Frame, Before>>

(* The process stops in the middle of commit(): the Repo and the locals    *)
(* are gone, the files stay as the statements executed so far left them.    *)
(* how = "torn": it stops inside write_all of append_proof_at, after a part *)
(* of the bytes reached the file.  ret keeps, for the next call to be       *)
(* recognised as following it, that the proof was appended and staging not  *)
(* yet wiped.                                                               *)
Crash(how) ==
    /\ pc \notin {"idle", "done"}
    /\ how = "torn" => pc = "append"
    /\ store' = IF how = "torn"
                THEN append_proof_at(store, review, get_proof_rel_store_path(review), "torn")
                ELSE store
    /\ pc' = "idle"
    /\ staging' = Unopened
    /\ project_config' = NoConfig
    /\ revision' = NoRevision
    /\ review' = NoReview
    /\ did' = {}
    /\ ret' = IF "append" \in did /\ "wipe" \notin did
              THEN [op |-> "commit", result |-> "crash", step |-> "", args |-> <<>>, out |-> <<>>]
              ELSE NoRet
    /\ config0' = config
    /\ staging0' = stagingFile
    /\ store0' = store'
    /\ UNCHANGED <<config, stagingFile, Tree>>

(* The call has returned and the process exits: the Repo is dropped. *)
Finish ==
    /\ pc = "done"
    /\ pc' = "idle"
    /\ staging' = Unopened
    /\ project_config' = NoConfig
    /\ revision' = NoRevision
    /\ review' = NoReview
    /\ did' = {}
    /\ ret' = NoRet
    /\ config0' = config
    /\ staging0' = stagingFile
    /\ store0' = store
    /\ UNCHANGED <<Disk, Tree>>

Next ==
    \/ \E p \in Paths, d \in Digests : ModifyFile(p, d)
    \/ \E g \in GitStates : GitChange(g)
    \/ \E t \in TrustRoots, id \in ProjectIds, how \in {"ok", "nonew", "nodir", "nostore"} :
          RepoInit(t, id, how)
    \/ \E a \in PathArgs, how \in {"ok", "noopen", "nosave"} : Add(a, how)
    \/ \E a \in PathArgs, how \in {"ok", "noopen", "nosave"} : Remove(a, how)
    \/ \E how \in {"ok", "noopen"} : Status(how)
    \/ \E ok \in BOOLEAN : CommitStaging(ok)
    \/ \E ok \in BOOLEAN : ReadPassphrase(ok)
    \/ \E ok \in BOOLEAN : LocalOpen(ok)
    \/ \E ok \in BOOLEAN : ReadUnlockedId(ok)
    \/ \E ok \in BOOLEAN : LoadProjectConfig(ok)
    \/ \E ioerr \in BOOLEAN : ReadRevision(ioerr)
    \/ \E ok \in BOOLEAN : EnforceCurrent(ok)
    \/ \E ok \in BOOLEAN : Build(ok)
    \/ \E how \in EditOutcomes : Edit(how)
    \/ \E ok \in BOOLEAN : Sign(ok)
    \/ \E how \in AppendOutcomes : AppendProof(how)
    \/ \E ok \in BOOLEAN : LocalReopen(ok)
    \/ \E ok \in BOOLEAN : LocalAppend(ok)
    \/ \E ok \in BOOLEAN : Wipe(ok)
    \/ \E how \in {"clean", "torn"} : Crash(how)
    \/ Finish

Spec == Init /\ [][Next]_vars

----------------------------------------------------------------------------
(* Observations shared by the properties *)

CommitSteps == {"read_passphrase", "local_open", "read_unlocked_id",
                "load_project_config", "read_revision", "enforce_current", "build",
                "edit", "sign", "append", "local_reopen", "local_append", "wipe"}

\* A commit() call is running or has just returned.
InCommit == pc \in CommitSteps \/ (pc = "done" /\ ret.op = "commit")
CommitOk == pc = "done" /\ ret.op = "commit" /\ ret.result = "ok"
CommitErr == pc = "done" /\ ret.op = "commit" /\ ret.result = "err"

\* The store file the running commit() targets.
Target == get_proof_rel_store_path(review)

\* The store is what it was at the start of the call plus the one signed proof.
OneProofAppended ==
    /\ Target \in StorePaths
    /\ store = [store0 EXCEPT ![Target] = Append(@, Serialize(review))]

----------------------------------------------------------------------------
(* C1: within commit(), staging is wiped only after append_proof_at has     *)
(* returned success for the proof of this call: whenever the wipe has run   *)
(* or the staging file differs from what it was at the start of the call,   *)
(* the append has completed and the store holds that proof.  After a failed *)
(* append the staging file is what it was.                                  *)
C1_WipeOnlyAfterAppend ==
    InCommit =>
        /\ ("wipe" \in did \/ stagingFile # staging0) =>
               ("append" \in did /\ OneProofAppended)
        /\ (CommitErr /\ ret.step = "append") => stagingFile = staging0

C1_Witness ==
    /\ CommitOk
    /\ "wipe" \in did
    /\ staging0 # NoEntries
    /\ stagingFile = NoEntries

(* C2: a commit() that returns Ok leaves the staging area empty (on disk    *)
(* and in the Repo) and the target store file with exactly one more signed  *)
(* proof than before the call; no other store file changed.                 *)
C2_OkMeansWipedAndOneProof ==
    CommitOk =>
        /\ is_empty(stagingFile)
        /\ staging.open /\ is_empty(staging.entries)
        /\ OneProofAppended
        /\ Len(CompleteProofs(store[Target])) = Len(CompleteProofs(store0[Target])) + 1

C2_Witness ==
    /\ CommitOk
    /\ is_empty(stagingFile)
    /\ Len(store0[Target]) = 1
    /\ Len(store[Target]) = 2

(* C3: a commit() that returns Err, whichever statement failed, leaves the  *)
(* staged entries as they were before the call.                             *)
C3_ErrKeepsStaging ==
    CommitErr =>
        /\ stagingFile = staging0
        /\ staging.open => staging.entries = staging0

C3_Witness ==
    /\ CommitErr
    /\ ret.step = "wipe"
    /\ staging0 # NoEntries
    /\ stagingFile = staging0

(* C4 as stated: whenever commit() returns Err, the proof store holds no    *)
(* proof that was not there before the call and staging has not been wiped. *)
C4_ErrLeavesNoProof ==
    CommitErr =>
        /\ \A rel \in StorePaths : CompleteProofs(store[rel]) = CompleteProofs(store0[rel])
        /\ stagingFile = staging0

(* C4 amended: whenever commit() returns Err, staging has not been wiped;   *)
(* the store holds no proof that was not there before the call unless the   *)
(* failing statement comes after the successful append (reopening the local *)
(* store, wiping staging), and then it holds exactly that one new proof.    *)
C4_ErrNoProofUnlessAppended ==
    CommitErr =>
        /\ stagingFile = staging0
        /\ "wipe" \notin did
        /\ IF "append" \in did
           THEN OneProofAppended /\ ret.step \in {"local_reopen", "wipe"}
           ELSE \A rel \in StorePaths :
                    CompleteProofs(store[rel]) = CompleteProofs(store0[rel])

C4_Witness ==
    /\ CommitErr
    /\ ret.step = "local_reopen"
    /\ OneProofAppended
    /\ stagingFile = staging0
    /\ staging0 # NoEntries

(* C5: enforce_current runs before build, edit, sign, the printing of the   *)
(* proof and the append; when it fails, commit() returns Err with nothing   *)
(* signed, nothing printed and the store untouched; and it does fail when a *)
(* staged file no longer has the digest recorded for it (a process that    *)
(* stops inside the statement returns nothing).                             *)
C5_EnforceGate ==
    /\ [](InCommit =>
            /\ (did \cap {"build", "edit", "sign", "print", "append"} # {}) =>
                   "enforce_current" \in did
            /\ (CommitErr /\ ret.step = "enforce_current") =>
                   ("sign" \notin did /\ "print" \notin did /\ store = store0))
    /\ [][(pc = "enforce_current" /\ pc' \notin {pc, "idle"} /\ ~IsCurrent(staging.entries, files)) =>
              (pc' = "done" /\ ret'.result = "err" /\ ret'.step = "enforce_current")]_vars

C5_Witness ==
    /\ CommitErr
    /\ ret.step = "enforce_current"
    /\ ~IsCurrent(staging0, files)
    /\ "read_revision" \in did
    /\ "sign" \notin did
    /\ store = store0

(* C6: a proof is signed, printed or appended only after read_revision      *)
(* returned a git revision in the same call; with no .git directory, a      *)
(* repository state other than Clean or a modified tracked file, commit()   *)
(* returns Err at read_revision with nothing signed and the store           *)
(* untouched (a process that stops inside the statement returns nothing).  *)
(* Untracked files alone do not make it fail.                               *)
C6_CleanRevisionGate ==
    /\ [](InCommit =>
            /\ (did \cap {"sign", "print", "append"} # {}) =>
                   /\ "read_revision" \in did
                   /\ revision.type_ = "git"
                   /\ revision.revision \in Revs
            /\ (CommitErr /\ ret.step = "read_revision") =>
                   ("sign" \notin did /\ "print" \notin did /\ store = store0))
    /\ [][(pc = "read_revision" /\ pc' \notin {pc, "idle"}
             /\ (~git.dotgit \/ git.state # "Clean" \/ git.modified)) =>
              (pc' = "done" /\ ret'.result = "err" /\ ret'.step = "read_revision")]_vars

C6_Witness ==
    /\ CommitErr
    /\ ret.step = "read_revision"
    /\ git.dotgit /\ git.state = "Clean" /\ git.modified
    /\ "sign" \notin did
    /\ store = store0

(* C7: commit() on an empty staging area returns Err before the passphrase  *)
(* is asked for and before any collaborator is touched, with the "nothing   *)
(* to commit" error as soon as the staging area could be opened, and leaves *)
(* the proof store, the staging file and the project config as they were.   *)
C7_EmptyStagingRejected ==
    (InCommit /\ is_empty(staging0)) =>
        /\ pc = "done"
        /\ ret.result = "err"
        /\ ret.step \in {"staging", "nothing_to_commit"}
        /\ staging.open => ret.step = "nothing_to_commit"
        /\ did = {}
        /\ store = store0
        /\ stagingFile = staging0
        /\ config = config0

C7_Witness ==
    /\ CommitErr
    /\ is_empty(staging0)
    /\ staging.open
    /\ ret.step = "nothing_to_commit"
    /\ config # {}
    /\ git.dotgit /\ git.state = "Clean" /\ ~git.modified

(* C8: every step of every operation leaves each store file with its former *)
(* content as a prefix; a successful commit() on a file holding one proof   *)
(* leaves exactly two proofs there, the first unchanged, the new one last.  *)
C8_AppendOnly ==
    /\ [][\A rel \in StorePaths : IsPrefix(store[rel], store'[rel])]_vars
    /\ []((CommitOk /\ Target \in StorePaths /\ Len(store0[Target]) = 1
             /\ store0[Target][1].complete) =>
              store[Target] = <<store0[Target][1], Serialize(review)>>)

C8_Witness ==
    /\ CommitOk
    /\ Target \in StorePaths
    /\ Len(store[Target]) = 2
    /\ store[Target][1].complete /\ store[Target][2].complete
    /\ store[Target][1] = store0[Target][1]
    /\ store[Target][1] # store[Target][2]

(* C9 as stated: commit() returns Ok only if the append to the project      *)
(* store, the append to the user's local store and the wipe all succeeded;  *)
(* add() and remove() return Ok only if save() wrote the entries.           *)
C9_OkMeansDurable ==
    /\ CommitOk => {"append", "local_append", "wipe"} \subseteq did
    /\ (pc = "done" /\ ret.op \in {"add", "remove"} /\ ret.result = "ok") =>
           stagingFile = staging.entries

(* C10: add() of paths that are all staged leaves the staged set as it was, *)
(* in general the staged set after add(ps) is the old set plus ps; adding p *)
(* twice, in two calls or in one, gives what adding it once gives; remove() *)
(* of paths that are not staged leaves the entries unchanged and fails only *)
(* if the staging file cannot be opened or saved.                           *)
C10_IdempotentStaging ==
    /\ (pc = "done" /\ ret.op = "add" /\ ret.result = "ok") =>
           DOMAIN stagingFile = (DOMAIN staging0) \cup Range(ret.args)
    /\ \A p \in Paths :
           /\ AddAll(AddAll(stagingFile, <<p>>, files), <<p>>, files)
                  = AddAll(stagingFile, <<p>>, files)
           /\ AddAll(stagingFile, <<p, p>>, files) = AddAll(stagingFile, <<p>>, files)
    /\ (pc = "done" /\ ret.op = "remove" /\ Range(ret.args) \cap DOMAIN staging0 = {}) =>
           /\ stagingFile = staging0
           /\ ret.result = "ok" \/ ret.step \in {"staging", "save"}

C10_Witness ==
    /\ pc = "done" /\ ret.op = "add" /\ ret.result = "ok"
    /\ ret.args # <<>>
    /\ Range(ret.args) \subseteq DOMAIN staging0
    /\ DOMAIN stagingFile = DOMAIN staging0

(* C11: after add() or remove() returned Ok the staging file holds the     *)
(* in-memory entries, every path given to add() is staged and every path   *)
(* given to remove() is not, and a Repo constructed afterwards opens        *)
(* exactly those entries; the call saved once, after its last mutation:     *)
(* the file is the result of applying all the paths to the entries the call *)
(* started with.                                                            *)
C11_SavedAfterMutation ==
    (pc = "done" /\ ret.op \in {"add", "remove"} /\ ret.result = "ok") =>
        /\ stagingFile = staging.entries
        /\ StagingAccessor(Unopened, stagingFile).entries = staging.entries
        /\ ret.op = "add" =>
               /\ Range(ret.args) \subseteq DOMAIN stagingFile
               /\ stagingFile = AddAll(staging0, ret.args, files)
        /\ ret.op = "remove" =>
               /\ Range(ret.args) \cap DOMAIN stagingFile = {}
               /\ stagingFile = RemoveAll(staging0, ret.args)

C11_Witness ==
    /\ pc = "done" /\ ret.op = "add" /\ ret.result = "ok"
    /\ Len(ret.args) = 2
    /\ staging0 = NoEntries
    /\ DOMAIN stagingFile = Range(ret.args)
    /\ StagingAccessor(Unopened, stagingFile).entries = staging.entries

(* C12: add(), remove() and status() leave the proof store, the project  *)
(* config, the working tree and the git state as they were; their outcome   *)
(* is determined by the staging file, the paths given and the files alone:  *)
(* they fail only if the staging file cannot be opened or saved, whatever   *)
(* the git state, and status() lists the staged paths and leaves the        *)
(* staged set unchanged.                                                    *)
C12_StagingOpsIgnoreVcs ==
    /\ [](  (pc = "done" /\ ret.op \in {"add", "remove", "status"}) =>
               /\ store = store0 /\ config = config0
               /\ ret.result = "err" =>
                      ret.step \in {"staging", "save"} /\ stagingFile = staging0
               /\ (ret.op = "add" /\ ret.result = "ok") =>
                      stagingFile = AddAll(staging0, ret.args, files)
               /\ (ret.op = "remove" /\ ret.result = "ok") =>
                      stagingFile = RemoveAll(staging0, ret.args)
               /\ ret.op = "status" =>
                      /\ stagingFile = staging0
                      /\ ret.result = "ok" => ret.out = to_review_files(staging0))
    /\ [][(pc = "idle" /\ pc' = "done" /\ ret'.op \in {"add", "remove", "status"}) =>
             (git' = git /\ files' = files)]_vars

\* status() lists the staged paths in a dirty tree.
C12_Witness ==
    /\ pc = "done" /\ ret.op = "status" /\ ret.result = "ok"
    /\ git.dotgit /\ git.modified
    /\ ret.out # <<>> /\ stagingFile = staging0

(* C13: the project config is written at most once. No step of any        *)
(* operation changes a config that exists, and init() on a root that has a  *)
(* config returns Err and leaves its project id and trust root as they were. *)
C13_ConfigWrittenOnce ==
    /\ [][config # {} => config' = config]_vars
    /\ []((pc = "done" /\ ret.op = "init" /\ config0 # {}) =>
              (ret.result = "err" /\ config = config0))

\* init() with another id and trust root was refused because a config exists.
C13_Witness ==
    /\ pc = "done" /\ ret.op = "init"
    /\ ret.result = "err" /\ ret.step = "exists"
    /\ config0 # {} /\ config = config0

(* C14: build, edit and sign, when they run to their end, either complete *)
(* or end commit() with Err at that statement; after such an Err the store is what it was before the    *)
(* call, nothing was printed and the staging file is unchanged; whenever    *)
(* commit() has printed the proof or changed the store, sign() had          *)
(* completed before.                                                        *)
C14_NothingVisibleBeforeSign ==
    /\ [](InCommit =>
            /\ (CommitErr /\ ret.step \in {"build", "edit", "sign"}) =>
                   /\ store = store0
                   /\ "print" \notin did
                   /\ stagingFile = staging0
            /\ ("print" \in did \/ store # store0) => "sign" \in did)
    /\ [][\A s \in {"build", "edit", "sign"} :
             (pc = s /\ pc' \notin {s, "idle"}) =>
                 \/ s \in did' /\ pc' \in CommitSteps
                 \/ CommitErr' /\ ret'.step = s /\ s \notin did']_vars

\* sign() failed on a built and edited review.
C14_Witness ==
    /\ CommitErr /\ ret.step = "sign"
    /\ {"build", "edit"} \subseteq did
    /\ staging0 # NoEntries /\ stagingFile = staging0
    /\ store = store0 /\ "print" \notin did

\* The running commit() is the first call after a process that stopped
\* between the append of its proof and the wipe.
AfterCrash == pc \in CommitSteps /\ ret.op = "commit" /\ ret.result = "crash"

(* C15: wherever commit() stands between its completed append and the     *)
(* wipe, the staging file is the one the call started with and the store is *)
(* the one it started with plus the proof.  In the commit() that follows a  *)
(* process stop at such a point, enforce_current passes when the staged     *)
(* files are unchanged, and when the call returns Ok the store is the store *)
(* it found, whose last record is the complete proof of the stopped call,   *)
(* plus one complete proof of staged files at a git revision: an equal      *)
(* record when both reviews were left as built, and no earlier record is    *)
(* changed.                                                                 *)
C15_CrashBeforeWipeDuplicates ==
    /\ []((InCommit /\ "append" \in did /\ "wipe" \notin did) =>
              (stagingFile = staging0 /\ staging0 # NoEntries /\ OneProofAppended))
    /\ []((AfterCrash /\ pc = "enforce_current" /\ IsCurrent(stagingFile, files)) =>
              ENABLED (EnforceCurrent(TRUE) /\ pc' = "build"))
    /\ [][(AfterCrash /\ CommitOk') =>
             LET old == store0[Target]
                 new == store'[Target]
             IN /\ old # <<>> /\ old[Len(old)].complete
                /\ store' = [store0 EXCEPT ![Target] = Append(@, Serialize(review))]
                /\ Range(review.files) \subseteq DOMAIN staging0
                /\ review.revision \in Revs
                /\ ("edited" \notin did
                      /\ old[Len(old)].body.files = to_review_files(staging0)) =>
                       new[Len(new)] = old[Len(old)]
                /\ stagingFile' = NoEntries]_vars

\* The commit() after the stop has appended the second, equal proof.
C15_Witness ==
    /\ AfterCrash /\ pc = "wipe" /\ "append" \in did
    /\ stagingFile = staging0 /\ staging0 # NoEntries
    /\ Len(store[Target]) = 2
    /\ store[Target][1] = store[Target][2]
    /\ store[Target][2] = Serialize(review)

(* C16: every record of every store file is a complete proof with its     *)
(* delimiters: neither an error inside append_proof_at nor a process stop   *)
(* inside it leaves a part of a proof in the file.                          *)
C16_NoPartialProof ==
    \A rel \in StorePaths : \A i \in DOMAIN store[rel] : store[rel][i].complete

----------------------------------------------------------------------------
(* commit() retried: a project made by init() in a clean git tree, files    *)
(* staged by add() and left alone, and the user who runs commit() again     *)
(* after every failure.                                                     *)

InitRetry ==
    /\ \E t \in TrustRoots, id \in ProjectIds :
           config = {[version |-> 0, project_id |-> id, project_trust_root |-> t]}
    /\ files \in [Paths -> Digests]
    /\ git \in {g \in GitStates : read_revision(g, FALSE).ok}
    /\ \E a \in PathArgs : stagingFile = AddAll(NoEntries, a, files)
    /\ staging = Unopened
    /\ store = [rel \in StorePaths |-> <<>>]
    /\ pc = "idle"
    /\ project_config = NoConfig
    /\ revision = NoRevision
    /\ review = NoReview
    /\ did = {}
    /\ ret = NoRet
    /\ config0 = config
    /\ staging0 = stagingFile
    /\ store0 = store

\* The store files are bounded by MaxProofs: a call may fail, leaving or not
\* leaving a record, only while there is room for the proof of a retry.
Bounded(A) == A /\ (CommitErr' => TotalChunks(store') < MaxProofs)

NextRetry ==
    \/ \E ok \in BOOLEAN : Bounded(CommitStaging(ok))
    \/ \E ok \in BOOLEAN : Bounded(ReadPassphrase(ok))
    \/ \E ok \in BOOLEAN : Bounded(LocalOpen(ok))
    \/ \E ok \in BOOLEAN : Bounded(ReadUnlockedId(ok))
    \/ \E ok \in BOOLEAN : Bounded(LoadProjectConfig(ok))
    \/ \E ioerr \in BOOLEAN : Bounded(ReadRevision(ioerr))
    \/ \E ok \in BOOLEAN : Bounded(EnforceCurrent(ok))
    \/ \E ok \in BOOLEAN : Bounded(Build(ok))
    \/ \E how \in EditOutcomes : Bounded(Edit(how))
    \/ \E ok \in BOOLEAN : Bounded(Sign(ok))
    \/ \E how \in AppendOutcomes : Bounded(AppendProof(how))
    \/ \E ok \in BOOLEAN : Bounded(LocalReopen(ok))
    \/ \E ok \in BOOLEAN : Bounded(LocalAppend(ok))
    \/ \E ok \in BOOLEAN : Bounded(Wipe(ok))
    \/ Finish

\* The user runs commit() again after every return (the process exits,
\* commit() starts, each statement runs to its end), and from some moment
\* on no statement of commit() fails.
FairRetry ==
    /\ WF_vars(NextRetry)
    /\ <>[][~(CommitErr' /\ ret'.step # "nothing_to_commit")]_vars

SpecRetry == InitRetry /\ [][NextRetry]_vars /\ FairRetry

(* C17: a commit() that failed on staged files leaves them staged, and     *)
(* with the files unchanged, the tree clean, the user retrying and no       *)
(* statement failing for ever, a later commit() returns Ok; a commit() that *)
(* returns Ok has appended its proof and wiped staging, and staged files    *)
(* lead to the idle state with nothing staged.                              *)
C17_Rerunnable ==
    /\ []((CommitErr /\ staging0 # NoEntries) => stagingFile = staging0)
    /\ (CommitErr /\ staging0 # NoEntries) ~> CommitOk
    /\ [](CommitOk => (OneProofAppended /\ stagingFile = NoEntries))
    /\ (stagingFile # NoEntries) ~> (pc = "idle" /\ stagingFile = NoEntries)

\* commit() returned Ok after an earlier commit() had failed inside or
\* after its append.
C17_Witness ==
    /\ CommitOk
    /\ staging0 # NoEntries /\ stagingFile = NoEntries
    /\ store0[Target] # <<>>
    /\ OneProofAppended

(* C18: when sign() completes, every staged entry has the digest its file *)
(* has now, and the git tree is clean with HEAD at the revision the review  *)
(* carries.                                                                 *)
C18_SignedMatchesReality ==
    [][("sign" \notin did /\ "sign" \in did') =>
          /\ IsCurrent(stagingFile, files)
          /\ read_revision(git, FALSE).ok
          /\ read_revision(git, FALSE).info.revision = review.revision]_vars

(* C19: when commit() returns Ok and the editor returned the review as    *)
(* built, the store is the store before the call plus one complete proof    *)
(* that carries the git revision read_revision returned in this call, the   *)
(* project id of the config init() wrote, and as files the paths staged     *)
(* before the call, each once, in lexicographic order; the proof is in the  *)
(* file proofs/<project path of that content>; nothing is staged any more,  *)
(* and status() on an empty staging file lists nothing.                     *)
C19_ProofContent ==
    /\ (CommitOk /\ "edited" \notin did) =>
          LET new == store[Target]
              proof == new[Len(new)]
          IN /\ Target \in StorePaths
             /\ store = [store0 EXCEPT ![Target] = Append(@, proof)]
             /\ proof.complete
             /\ proof.body.revision = revision.revision
             /\ proof.body.revision_type = "git" /\ proof.body.revision \in Revs
             /\ config # {} /\ config = config0
             /\ \A c \in config : proof.body.project_id = c.project_id
             /\ proof.body.files = SelectSeq(PathOrder, LAMBDA q : q \in DOMAIN staging0)
             /\ Target = <<"proofs", rel_project_path(proof.body)>>
             /\ stagingFile = NoEntries
             /\ to_review_files(StagingAccessor(Unopened, stagingFile).entries) = <<>>
    /\ (pc = "done" /\ ret.op = "status" /\ ret.result = "ok" /\ staging0 = NoEntries) =>
          ret.out = <<>>

\* Both paths were staged; the proof lists them in order.
C19_Witness ==
    /\ CommitOk /\ "edited" \notin did
    /\ DOMAIN staging0 = Paths
    /\ store[Target] # <<>>
    /\ store[Target][Len(store[Target])].body.files = PathOrder
    /\ stagingFile = NoEntries

====
